---- MODULE Spec2Model ----
(***************************************************************************)
(* Model of the two experiment drivers of ai4eo-challenge-slovenia:        *)
(*   src/ai4eo/model.py    cultivated-land classification, main()          *)
(*   src/ai4eo/srresnet.py super-resolution network and its training run   *)
(* The variable `unit` says which part of the repository a behaviour runs: *)
(*   "train"   the epoch loop of main() in model.py, lines 270-319, with   *)
(*             the per-epoch validation score as an input                  *)
(*   "sr_fit"  the training run of srresnet.py, lines 364-375              *)
(*   "sr_net"  SRResNet.__init__ and forward, on tensor shapes             *)
(*   "predict" predict() of model.py, lines 214-244, on one batch          *)
(*   "nni_params" add_nni_params of srresnet.py, lines 304-318             *)
(*   "dataset" the two EODataset constructions of main(), lines 256-257    *)
(* Floats are records: Num(v) is the number v/10, Inf is +inf, NaN is nan. *)
(***************************************************************************)
EXTENDS Integers, Sequences, FiniteSets, TLC

\* ------------------------------------------------------------------ bounds
MaxEpochs == 5
MaxPatience == 2
MaxValidBatches == 1
MaxSREpochs == 12
MaxScale == 8
MaxKernel == 3
MaxBlocks == 2
MaxChannels == 1
MaxSide == 2
MaxBatch == 2
MaxS2Length == 1
MaxFolders == 3
MaxValidPatches == 3

\* ------------------------------------------------------------------ floats
Num(v) == [k |-> "num", v |-> v]
Inf == [k |-> "inf", v |-> 0]
NaN == [k |-> "nan", v |-> 0]

\* Python's float comparison a < b (nan compares false, +inf is the largest).
Less(a, b) ==
    IF a.k = "nan" \/ b.k = "nan" THEN FALSE
    ELSE IF a.k = "inf" THEN FALSE
    ELSE IF b.k = "inf" THEN TRUE
    ELSE a.v < b.v

\* The validation scores an epoch can produce, in tenths, and nan.
ScoreSet == {Num(4), Num(5), Num(6), NaN}

VARIABLES
    unit,            \* which part of the repository this behaviour runs
    pc,              \* position in the unit's code
    error,           \* "none", or the exception that ended the run
    patience,        \* args.patience
    max_epochs,      \* args.max_epochs
    nni,             \* args.nni
    valid_batches,   \* number of batches valid_loader yields
    epoch,           \* the loop variable of line 274
    params,          \* parameters of the objects "model" and "copy" (number of sweeps applied)
    best_model,      \* what the name best_model is bound to: "unbound", "model", "copy"
    best_preds,      \* the predictions list best_preds is bound to (0: unbound)
    best_loss,       \* line 270
    best_epoch,      \* line 271
    patience_count,  \* line 272
    valid_loss,      \* line 294
    preds,           \* line 289: this epoch's predictions (the parameters that made them)
    outcome,         \* which branch of line 302 the last epoch took
    stop_cause,      \* how the loop of line 274 was left: "none", "patience", "budget"
    valid_history,   \* every valid_loss computed so far, in order
    saved,           \* number of torch.save calls made (line 318)
    \* srresnet.py, the training run
    n_epochs,        \* args.n_epochs
    sr_nni,          \* args.nni
    sr_epoch,        \* the trainer's current epoch
    sr_params,       \* parameters of the SRResNet being trained (number of epochs applied)
    val_loss,        \* the logged metric 'val_loss' (trainer.callback_metrics)
    ckpt,            \* parameters stored in best_model.ckpt (0: no such file)
    ckpt_score,      \* ModelCheckpoint's best_model_score
    es_wait,         \* early_stop_callback.wait_count
    es_best,         \* early_stop_callback.best_score
    should_stop,     \* trainer.should_stop
    valid_model,     \* parameters of valid_model of line 374 (0: unbound)
    reports,         \* the calls made to nni.report_*_result, in order
    val_history,     \* every val_loss logged so far, in order
    \* srresnet.py, SRResNet
    scaling_factor,     \* args.scaling_factor
    large_kernel_size,  \* args.large_kernel_size
    small_kernel_size,  \* args.small_kernel_size
    n_blocks,           \* args.n_blocks
    n_channels,         \* args.n_channels
    lr_imgs,            \* shape of the input batch, [c, w, h] per image
    blocks,             \* the blocks __init__ has built, in order
    fit_started,        \* trainer.fit has been called (line 371)
    output,             \* shape of the tensor `output` / `sr_imgs` in forward
    residual,           \* shape of the tensor `residual` in forward
    layer,              \* blocks of the current nn.Sequential already applied
    \* model.py, predict
    n_inputs,        \* len(inputs), the batch size
    s2_length,       \* args.s2_length
    target,          \* the target batch, [sample][row][column], in tenths
    weight,          \* the weight batch, same shape
    pred,            \* model(inputs), same shape, in tenths (<<>>: not computed yet)
    losses,          \* what matthews_corrcoef returned or raised
    \* srresnet.py, add_nni_params
    parsed_args,     \* vars(args) as parse_args returned it (line 355)
    args_dict,       \* vars(args), updated in place
    args_nni,        \* what nni.get_next_parameter() returned, per key
    nni_output_dir,  \* os.path.expandvars('$NNI_OUTPUT_DIR'), as path components
    \* model.py, the datasets of main()
    n_folders,        \* number of entries of args.processed_data_dir
    n_valid_patches,  \* args.n_valid_patches
    train_patches,    \* f_patches of EODataset('train') after line 122
    valid_patches     \* f_patches of EODataset('valid') after line 124

args == <<patience, max_epochs, nni, valid_batches>>
best == <<best_model, best_preds, best_loss, best_epoch, patience_count>>

trainVars == <<args, epoch, params, best, valid_loss, preds, outcome, stop_cause,
               valid_history, saved>>
srVars == <<n_epochs, sr_nni, sr_epoch, sr_params, val_loss, ckpt, ckpt_score, es_wait,
            es_best, should_stop, valid_model, reports, val_history>>

netArgs == <<scaling_factor, large_kernel_size, small_kernel_size, n_blocks, n_channels,
             lr_imgs>>
netVars == <<netArgs, blocks, fit_started, output, residual, layer>>

predictVars == <<n_inputs, s2_length, target, weight, pred, losses>>

nniVars == <<parsed_args, args_dict, args_nni, nni_output_dir>>
dataVars == <<n_folders, n_valid_patches, train_patches, valid_patches>>

vars == <<unit, pc, error, trainVars, srVars, netVars, predictVars, nniVars, dataVars>>

\* What the actions of one unit leave alone: the state of the other units.
notTrain == <<srVars, netVars, predictVars, nniVars, dataVars>>
notSR == <<trainVars, netVars, predictVars, nniVars, dataVars>>
notNet == <<trainVars, srVars, predictVars, nniVars, dataVars>>
notPredict == <<trainVars, srVars, netVars, nniVars, dataVars>>
notNni == <<trainVars, srVars, netVars, predictVars, dataVars>>
notData == <<trainVars, srVars, netVars, predictVars, nniVars>>

Patiences == -1 .. MaxPatience
Budgets == 0 .. MaxEpochs

\* ------------------------------------------------------- model.py: main()
\* The state of main() in a behaviour that runs another unit.
TrainIdle ==
    /\ patience = 0 /\ max_epochs = 0 /\ nni = FALSE /\ valid_batches = 0
    /\ epoch = 0 /\ params = [model |-> 0, copy |-> 0]
    /\ best_model = "unbound" /\ best_preds = 0 /\ best_loss = Inf /\ best_epoch = 0
    /\ patience_count = 0 /\ valid_loss = NaN /\ preds = 0 /\ outcome = "none"
    /\ stop_cause = "none" /\ valid_history = << >> /\ saved = 0

\* Lines 270-272 and the first test of the for loop of line 274.
TrainInit ==
    /\ patience \in Patiences
    /\ max_epochs \in Budgets
    /\ nni \in BOOLEAN
    /\ valid_batches \in 0 .. MaxValidBatches
    /\ epoch = 0
    /\ params = [model |-> 0, copy |-> 0]
    /\ best_model = "unbound"
    /\ best_preds = 0
    /\ best_loss = Inf
    /\ best_epoch = 0
    /\ patience_count = 0
    /\ valid_loss = NaN
    /\ preds = 0
    /\ outcome = "none"
    /\ valid_history = << >>
    /\ saved = 0
    /\ error = "none"
    /\ pc = IF max_epochs = 0 THEN "final_report" ELSE "train"
    /\ stop_cause = IF max_epochs = 0 THEN "budget" ELSE "none"

\* Lines 276-286: one sweep over the training batches updates the live model.
TrainSweep ==
    /\ UNCHANGED notTrain
    /\ unit = "train" /\ pc = "train"
    /\ params' = [params EXCEPT !.model = @ + 1]
    /\ pc' = "validate"
    /\ UNCHANGED <<unit, error, args, epoch, best, valid_loss, preds, outcome,
                   stop_cause, valid_history, saved>>

\* Lines 288-297: the validation sweep. preds is a fresh list each epoch; the
\* name pred read at line 295 is bound only by the loop body of line 291.
Validate ==
    /\ UNCHANGED notTrain
    /\ unit = "train" /\ pc = "validate"
    /\ \E score \in ScoreSet :
        /\ valid_loss' = (IF valid_batches = 0 THEN NaN ELSE score)
        /\ valid_history' = Append(valid_history, valid_loss')
    /\ preds' = params.model
    /\ IF valid_batches = 0
       THEN pc' = "crashed" /\ error' = "NameError"
       ELSE pc' = "report" /\ error' = error
    /\ UNCHANGED <<unit, args, epoch, params, best, outcome, stop_cause, saved>>

\* Lines 299-300: model.py never imports nni, so the call raises NameError.
ReportIntermediate ==
    /\ UNCHANGED notTrain
    /\ unit = "train" /\ pc = "report"
    /\ IF nni
       THEN pc' = "crashed" /\ error' = "NameError"
       ELSE pc' = "early_stopping" /\ error' = error
    /\ UNCHANGED <<unit, args, epoch, params, best, valid_loss, preds, outcome,
                   stop_cause, valid_history, saved>>

\* Python's float comparison a <= b.
LessEq(a, b) ==
    IF a.k = "nan" \/ b.k = "nan" THEN FALSE
    ELSE IF b.k = "inf" THEN TRUE
    ELSE IF a.k = "inf" THEN FALSE
    ELSE a.v <= b.v

\* Line 302 with <= in place of <.
ImprovesOrEqual(loss, known) == LessEq(loss, known)

\* Line 302.
Improves(loss, known) == Less(loss, known)

\* best_model = model: a second name for the live object, no copy.
BindBestModelAlias ==
    /\ params' = params
    /\ best_model' = "model"

\* Line 303: copy.deepcopy(model) makes a new object holding the live parameters.
BindBestModel ==
    /\ params' = [params EXCEPT !.copy = params.model]
    /\ best_model' = "copy"

\* Lines 302-308.
EarlyStopping ==
    /\ UNCHANGED notTrain
    /\ unit = "train" /\ pc = "early_stopping"
    /\ IF Improves(valid_loss, best_loss)
       THEN /\ BindBestModel
            /\ best_preds' = preds
            /\ best_loss' = valid_loss
            /\ patience_count' = 0
            /\ outcome' = "Improved"
       ELSE /\ patience_count' = patience_count + 1
            /\ outcome' = "Stagnant"
            /\ UNCHANGED <<params, best_model, best_preds, best_loss>>
    /\ pc' = "patience_check"
    /\ UNCHANGED <<unit, error, args, epoch, best_epoch, valid_loss, preds,
                   stop_cause, valid_history, saved>>

\* Line 310 with >= in place of ==.
PatienceReachedOrPassed == patience_count >= patience

\* Line 310.
PatienceReached == patience_count = patience

\* Lines 310-312 with a loop of line 274 that runs one epoch past max_epochs.
PatienceCheckOneMore ==
    /\ UNCHANGED notTrain
    /\ unit = "train" /\ pc = "patience_check"
    /\ IF PatienceReached
       THEN pc' = "final_report" /\ stop_cause' = "patience" /\ epoch' = epoch
       ELSE IF epoch + 1 <= max_epochs
            THEN pc' = "train" /\ stop_cause' = stop_cause /\ epoch' = epoch + 1
            ELSE pc' = "final_report" /\ stop_cause' = "budget" /\ epoch' = epoch
    /\ UNCHANGED <<unit, error, args, params, best, valid_loss, preds, outcome,
                   valid_history, saved>>

\* Lines 310-312, and the next test of the for loop of line 274.
PatienceCheck ==
    /\ UNCHANGED notTrain
    /\ unit = "train" /\ pc = "patience_check"
    /\ IF PatienceReached
       THEN pc' = "final_report" /\ stop_cause' = "patience" /\ epoch' = epoch
       ELSE IF epoch + 1 < max_epochs
            THEN pc' = "train" /\ stop_cause' = stop_cause /\ epoch' = epoch + 1
            ELSE pc' = "final_report" /\ stop_cause' = "budget" /\ epoch' = epoch
    /\ UNCHANGED <<unit, error, args, params, best, valid_loss, preds, outcome,
                   valid_history, saved>>

\* Lines 314-315: neither nni nor best_valid_loss is bound in model.py.
ReportFinal ==
    /\ UNCHANGED notTrain
    /\ unit = "train" /\ pc = "final_report"
    /\ IF nni
       THEN pc' = "crashed" /\ error' = "NameError"
       ELSE pc' = "save" /\ error' = error
    /\ UNCHANGED <<unit, args, epoch, params, best, valid_loss, preds, outcome,
                   stop_cause, valid_history, saved>>

\* Lines 317-319: best_model is read whether or not line 303 ever bound it.
SaveBestModel ==
    /\ UNCHANGED notTrain
    /\ unit = "train" /\ pc = "save"
    /\ IF best_model = "unbound"
       THEN pc' = "crashed" /\ error' = "UnboundLocalError" /\ saved' = saved
       ELSE pc' = "done" /\ error' = error /\ saved' = saved + 1
    /\ UNCHANGED <<unit, args, epoch, params, best, valid_loss, preds, outcome,
                   stop_cause, valid_history>>

\* ------------------------------------------- srresnet.py: the training run
\* Line 366: EarlyStopping(monitor="val_loss", min_delta=0.00, patience=10, mode="min").
SRPatience == 10

\* Line 370: the callbacks handed to the Trainer.
TrainerCallbacks == {"ModelCheckpoint", "SRCallbacks"}

\* The validation losses an epoch can log, in tenths.
SRLossSet == {Num(1), Num(2)}

\* The state of the training run in a behaviour that runs another unit.
SRIdle ==
    /\ n_epochs = 0 /\ sr_nni = FALSE /\ sr_epoch = 0 /\ sr_params = 0
    /\ val_loss = NaN /\ ckpt = 0 /\ ckpt_score = Inf /\ es_wait = 0 /\ es_best = Inf
    /\ should_stop = FALSE /\ valid_model = 0 /\ reports = << >> /\ val_history = << >>

\* Lines 364-371: the callbacks and the trainer are built and fit() starts.
SRInit ==
    /\ n_epochs \in 0 .. MaxSREpochs
    /\ sr_nni \in BOOLEAN
    /\ sr_epoch = 0 /\ sr_params = 0
    /\ val_loss = NaN /\ ckpt = 0 /\ ckpt_score = Inf /\ es_wait = 0 /\ es_best = Inf
    /\ should_stop = FALSE /\ valid_model = 0 /\ reports = << >> /\ val_history = << >>
    /\ error = "none"
    /\ pc = IF n_epochs = 0 THEN "sr_train_end" ELSE "sr_train"

\* Lines 263-268: one training epoch of trainer.fit updates the network.
SRTrainEpoch ==
    /\ UNCHANGED notSR
    /\ unit = "sr_fit" /\ pc = "sr_train"
    /\ sr_params' = sr_params + 1
    /\ pc' = "sr_validate"
    /\ UNCHANGED <<unit, error, n_epochs, sr_nni, sr_epoch, val_loss, ckpt, ckpt_score,
                   es_wait, es_best, should_stop, valid_model, reports, val_history>>

\* Line 365: ModelCheckpoint(monitor="val_loss") keeps the one checkpoint whose
\* val_loss is the lowest seen (save_top_k = 1, mode "min").
CheckpointImproves(current) == ckpt = 0 \/ Less(current, ckpt_score)

\* Lines 270-274 and 286-293 and the callbacks of line 370 at the end of a
\* validation epoch; an EarlyStopping callback acts only if the trainer has it.
SRValidate ==
    /\ UNCHANGED notSR
    /\ unit = "sr_fit" /\ pc = "sr_validate"
    /\ \E loss \in SRLossSet :
        /\ val_loss' = loss
        /\ val_history' = Append(val_history, loss)
        /\ IF CheckpointImproves(loss)
           THEN ckpt' = sr_params /\ ckpt_score' = loss
           ELSE UNCHANGED <<ckpt, ckpt_score>>
        /\ reports' = IF sr_nni THEN Append(reports, "intermediate") ELSE reports
        /\ IF "EarlyStopping" \in TrainerCallbacks
           THEN IF Less(loss, es_best)
                THEN es_best' = loss /\ es_wait' = 0 /\ should_stop' = should_stop
                ELSE /\ es_best' = es_best /\ es_wait' = es_wait + 1
                     /\ should_stop' = (should_stop \/ es_wait + 1 >= SRPatience)
           ELSE UNCHANGED <<es_best, es_wait, should_stop>>
    /\ IF should_stop' \/ sr_epoch + 1 >= n_epochs
       THEN pc' = "sr_train_end" /\ sr_epoch' = sr_epoch
       ELSE pc' = "sr_train" /\ sr_epoch' = sr_epoch + 1
    /\ UNCHANGED <<unit, error, n_epochs, sr_nni, sr_params, valid_model>>

\* Lines 295-301: SRCallbacks.on_train_end reads callback_metrics['val_loss'].
SRTrainEnd ==
    /\ UNCHANGED notSR
    /\ unit = "sr_fit" /\ pc = "sr_train_end"
    /\ IF sr_nni /\ val_history = << >>
       THEN pc' = "crashed" /\ error' = "KeyError" /\ reports' = reports
       ELSE /\ pc' = "sr_load" /\ error' = error
            /\ reports' = IF sr_nni THEN Append(reports, "final") ELSE reports
    /\ UNCHANGED <<unit, n_epochs, sr_nni, sr_epoch, sr_params, val_loss, ckpt, ckpt_score,
                   es_wait, es_best, should_stop, valid_model, val_history>>

\* Lines 374-375: the model used for prediction is read from best_model.ckpt.
SRLoadCheckpoint ==
    /\ UNCHANGED notSR
    /\ unit = "sr_fit" /\ pc = "sr_load"
    /\ IF ckpt = 0
       THEN pc' = "crashed" /\ error' = "FileNotFoundError" /\ valid_model' = valid_model
       ELSE pc' = "sr_done" /\ error' = error /\ valid_model' = ckpt
    /\ UNCHANGED <<unit, n_epochs, sr_nni, sr_epoch, sr_params, val_loss, ckpt, ckpt_score,
                   es_wait, es_best, should_stop, reports, val_history>>

\* ------------------------------------------------------ srresnet.py: SRResNet
\* Line 348: the default of --input_channels.
InputChannels == 3

Shape(c, w, h) == [c |-> c, w |-> w, h |-> h]
NoTensor == Shape(0, 0, 0)

\* The state of the network in a behaviour that runs another unit.
NetIdle ==
    /\ scaling_factor = 0 /\ large_kernel_size = 0 /\ small_kernel_size = 0
    /\ n_blocks = 0 /\ n_channels = 0 /\ lr_imgs = NoTensor /\ blocks = << >>
    /\ fit_started = FALSE /\ output = NoTensor /\ residual = NoTensor /\ layer = 0

\* Lines 346-351: the options SRResNet reads, and the batch it is given.
NetInit ==
    /\ scaling_factor \in 0 .. MaxScale
    /\ large_kernel_size \in 1 .. MaxKernel
    /\ small_kernel_size \in 1 .. MaxKernel
    /\ n_blocks \in 0 .. MaxBlocks
    /\ n_channels \in 1 .. MaxChannels
    /\ \E w \in 1 .. MaxSide, h \in 1 .. MaxSide : lr_imgs = Shape(InputChannels, w, h)
    /\ blocks = << >> /\ fit_started = FALSE
    /\ output = NoTensor /\ residual = NoTensor /\ layer = 0
    /\ error = "none"
    /\ pc = "net_assert"

\* A scaling factor of 1 accepted as well: no upscaling block.
ValidScalingFactorOrOne(s) == s \in {1, 2, 4, 8}

\* Line 206.
ValidScalingFactor(s) == s \in {2, 4, 8}

\* int(math.log2(s)) for s >= 1 (line 223).
RECURSIVE IntLog2(_)
IntLog2(s) == IF s <= 1 THEN 0 ELSE 1 + IntLog2(s \div 2)

\* n copies of the block b.
Copies(n, b) == [i \in 1 .. n |-> b]

\* Lines 201-206.
NetAssert ==
    /\ UNCHANGED notNet
    /\ unit = "sr_net" /\ pc = "net_assert"
    /\ IF ValidScalingFactor(scaling_factor)
       THEN pc' = "build_conv_block1" /\ error' = error
       ELSE pc' = "crashed" /\ error' = "AssertionError"
    /\ UNCHANGED <<unit, netVars>>

\* Lines 208-211.
BuildConvBlock1 ==
    /\ UNCHANGED notNet
    /\ unit = "sr_net" /\ pc = "build_conv_block1"
    /\ blocks' = Append(blocks, "conv_block1")
    /\ pc' = "build_residual_blocks"
    /\ UNCHANGED <<unit, error, netArgs, fit_started, output, residual, layer>>

\* Lines 213-216.
BuildResidualBlocks ==
    /\ UNCHANGED notNet
    /\ unit = "sr_net" /\ pc = "build_residual_blocks"
    /\ blocks' = blocks \o Copies(n_blocks, "residual")
    /\ pc' = "build_conv_block2"
    /\ UNCHANGED <<unit, error, netArgs, fit_started, output, residual, layer>>

\* Lines 218-220.
BuildConvBlock2 ==
    /\ UNCHANGED notNet
    /\ unit = "sr_net" /\ pc = "build_conv_block2"
    /\ blocks' = Append(blocks, "conv_block2")
    /\ pc' = "build_subpixel"
    /\ UNCHANGED <<unit, error, netArgs, fit_started, output, residual, layer>>

\* Lines 222-227.
BuildSubpixelBlocks ==
    /\ UNCHANGED notNet
    /\ unit = "sr_net" /\ pc = "build_subpixel"
    /\ blocks' = blocks \o Copies(IntLog2(scaling_factor), "subpixel")
    /\ pc' = "build_conv_block3"
    /\ UNCHANGED <<unit, error, netArgs, fit_started, output, residual, layer>>

\* Lines 229-234.
BuildConvBlock3 ==
    /\ UNCHANGED notNet
    /\ unit = "sr_net" /\ pc = "build_conv_block3"
    /\ blocks' = Append(blocks, "conv_block3")
    /\ pc' = "constructed"
    /\ UNCHANGED <<unit, error, netArgs, fit_started, output, residual, layer>>

\* Lines 369-371 and 263-265: fit starts and a training step calls forward.
StartFit ==
    /\ UNCHANGED notNet
    /\ unit = "sr_net" /\ pc = "constructed"
    /\ fit_started' = TRUE
    /\ pc' = "fwd_conv_block1"
    /\ UNCHANGED <<unit, error, netArgs, blocks, output, residual, layer>>

\* Lines 95-98: nn.Conv2d with stride 1 and padding = kernel_size // 2.
ConvOut(w, kernel_size) == (w + 2 * (kernel_size \div 2) - kernel_size) + 1

\* Lines 114-122: ConvolutionalBlock.forward (batch norm and activation keep the shape).
ConvolutionalBlock(t, out_channels, kernel_size) ==
    Shape(out_channels, ConvOut(t.w, kernel_size), ConvOut(t.h, kernel_size))

\* Lines 136-139 and 148-150: the convolution makes 4 * n_channels channels,
\* which nn.PixelShuffle(2) rearranges into twice the width and height.
SubPixelConvolutionalBlock(t) ==
    LET conv == ConvolutionalBlock(t, n_channels * 4, small_kernel_size)
    IN  Shape(conv.c \div 4, conv.w * 2, conv.h * 2)

\* One dimension of a + b under torch's broadcasting; 0 when the sizes do not fit.
BroadcastDim(a, b) == IF a = b THEN a ELSE IF a = 1 THEN b ELSE IF b = 1 THEN a ELSE 0

\* Lines 183 and 247: output + residual.
AddShapes(a, b) ==
    Shape(BroadcastDim(a.c, b.c), BroadcastDim(a.w, b.w), BroadcastDim(a.h, b.h))

Fits(t) == t.c > 0 /\ t.w > 0 /\ t.h > 0

\* The blocks of one kind that __init__ built.
Built(kind) == Cardinality({i \in DOMAIN blocks : blocks[i] = kind})

\* Lines 243-244.
FwdConvBlock1 ==
    /\ UNCHANGED notNet
    /\ unit = "sr_net" /\ pc = "fwd_conv_block1"
    /\ output' = ConvolutionalBlock(lr_imgs, n_channels, large_kernel_size)
    /\ residual' = output'
    /\ layer' = 0
    /\ pc' = "fwd_residual_blocks"
    /\ UNCHANGED <<unit, error, netArgs, blocks, fit_started>>

\* Line 245, one block of the sequence: ResidualBlock.forward, lines 180-185.
FwdResidualBlock ==
    /\ UNCHANGED notNet
    /\ unit = "sr_net" /\ pc = "fwd_residual_blocks" /\ layer < Built("residual")
    /\ LET block1 == ConvolutionalBlock(output, n_channels, small_kernel_size)
           block2 == ConvolutionalBlock(block1, n_channels, small_kernel_size)
           sum == AddShapes(block2, output)
       IN  IF Fits(sum)
           THEN output' = sum /\ layer' = layer + 1 /\ pc' = pc /\ error' = error
           ELSE output' = output /\ layer' = layer /\ pc' = "crashed"
                /\ error' = "RuntimeError"
    /\ UNCHANGED <<unit, netArgs, blocks, fit_started, residual>>

\* Lines 246-247.
FwdConvBlock2 ==
    /\ UNCHANGED notNet
    /\ unit = "sr_net" /\ pc = "fwd_residual_blocks" /\ layer = Built("residual")
    /\ LET block == ConvolutionalBlock(output, n_channels, small_kernel_size)
           sum == AddShapes(block, residual)
       IN  IF Fits(sum)
           THEN output' = sum /\ layer' = 0 /\ pc' = "fwd_subpixel" /\ error' = error
           ELSE output' = output /\ layer' = layer /\ pc' = "crashed"
                /\ error' = "RuntimeError"
    /\ UNCHANGED <<unit, netArgs, blocks, fit_started, residual>>

\* Line 248, one block of the sequence.
FwdSubpixelBlock ==
    /\ UNCHANGED notNet
    /\ unit = "sr_net" /\ pc = "fwd_subpixel" /\ layer < Built("subpixel")
    /\ output' = SubPixelConvolutionalBlock(output)
    /\ layer' = layer + 1
    /\ UNCHANGED <<unit, pc, error, netArgs, blocks, fit_started, residual>>

\* Lines 249-252: the sigmoid keeps the shape.
FwdConvBlock3 ==
    /\ UNCHANGED notNet
    /\ unit = "sr_net" /\ pc = "fwd_subpixel" /\ layer = Built("subpixel")
    /\ output' = ConvolutionalBlock(output, 1, large_kernel_size)
    /\ pc' = "fwd_done"
    /\ UNCHANGED <<unit, error, netArgs, blocks, fit_started, residual, layer>>

\* ------------------------------------------------------- model.py: predict()
\* Line 22.
SCALE == 4

\* Lines 192 and 199: the side of the images the model returns.
Side(length) == SCALE * length

\* One image of a batch: all zeros, all ones, the upper half ones (the pattern
\* 1,1,0,0), or values strictly between 0 and 1 (0.3 and 0.7).
Image(pattern, side) ==
    [i \in 1 .. side |-> [j \in 1 .. side |->
        CASE pattern = "zeros" -> 0
          [] pattern = "ones" -> 10
          [] pattern = "half" -> IF 2 * i <= side THEN 10 ELSE 0
          [] pattern = "logits" -> IF (i + j) % 2 = 0 THEN 3 ELSE 7]]

\* Lines 167-170: the label mask is 0/1, the weights are taken as 0/1 too.
TargetPatterns == {"zeros", "ones", "half"}
WeightPatterns == {"ones", "half"}
\* Lines 197-199: the output of a linear layer is any real number.
PredPatterns == {"zeros", "ones", "half", "logits"}

Batches(patterns, n, side) ==
    {[r \in 1 .. n |-> Image(choice[r], side)] : choice \in [1 .. n -> patterns]}

NoLoss == [kind |-> "none", num |-> 0, den2 |-> 1]

\* The state of predict in a behaviour that runs another unit.
PredictIdle ==
    /\ n_inputs = 0 /\ s2_length = 0 /\ target = << >> /\ weight = << >>
    /\ pred = << >> /\ losses = NoLoss

\* Lines 214-221: predict is called with one batch of the loader.
PredictInit ==
    /\ n_inputs \in 1 .. MaxBatch
    /\ s2_length \in 1 .. MaxS2Length
    /\ target \in Batches(TargetPatterns, n_inputs, Side(s2_length))
    /\ \E w \in WeightPatterns :
          weight = [r \in 1 .. n_inputs |-> Image(w, Side(s2_length))]
    /\ pred = << >>
    /\ losses = NoLoss
    /\ error = "none"
    /\ pc = "predict_forward"

\* Lines 223-233: the forward pass; pred has shape (batch, SCALE*L, SCALE*L).
PredictForward ==
    /\ UNCHANGED notPredict
    /\ unit = "predict" /\ pc = "predict_forward"
    /\ pred' \in Batches(PredPatterns, n_inputs, Side(s2_length))
    /\ pc' = "predict_score"
    /\ UNCHANGED <<unit, error, n_inputs, s2_length, target, weight, losses>>

\* Lines 236-238: torch.reshape(x, (len(inputs), -1)).
Reshape(x, n, side) ==
    [r \in 1 .. n |-> [k \in 1 .. side * side |->
        x[r][((k - 1) \div side) + 1][((k - 1) % side) + 1]]]

Columns(y) == IF DOMAIN y = {} THEN 0 ELSE Len(y[1])
Values(y) == {y[r][k] : r \in DOMAIN y, k \in 1 .. Columns(y)}
Integral(y) == \A v \in Values(y) : v % 10 = 0

\* sklearn.utils.multiclass.type_of_target, as called by the metric of line 242.
TypeOfTarget(y) ==
    IF Columns(y) > 1
    THEN IF Cardinality(Values(y)) <= 2 /\ Integral(y) THEN "multilabel-indicator"
         ELSE IF ~Integral(y) THEN "continuous-multioutput"
         ELSE "multiclass-multioutput"
    ELSE IF ~Integral(y) THEN "continuous"
         ELSE IF Cardinality(Values(y)) <= 2 THEN "binary"
         ELSE "multiclass"

\* sklearn.metrics._check_targets: the common type of both, or "raise".
CheckTargets(y_true, y_pred) ==
    LET tt == TypeOfTarget(y_true)
        tp == TypeOfTarget(y_pred)
    IN  IF {tt, tp} \subseteq {"binary", "multiclass"}
        THEN (IF tt = tp THEN tt ELSE "multiclass")
        ELSE IF tt # tp THEN "raise"
        ELSE IF tt # "multilabel-indicator" THEN "raise"
        ELSE tt

RECURSIVE SumTo(_, _)
SumTo(f, n) == IF n = 0 THEN 0 ELSE f[n] + SumTo(f, n - 1)

RECURSIVE SetSum(_, _)
SetSum(f, S) ==
    IF S = {} THEN 0 ELSE LET x == CHOOSE x \in S : TRUE IN f[x] + SetSum(f, S \ {x})

\* sklearn.metrics.matthews_corrcoef (line 242): a ValueError unless the targets
\* are binary or multiclass; 0.0 when either covariance is zero; otherwise
\* num / sqrt(den2).
MatthewsCorrcoef(y_true, y_pred, sample_weight) ==
    LET y_type == CheckTargets(y_true, y_pred)
    IN  IF y_type \notin {"binary", "multiclass"}
        THEN [kind |-> "raise", num |-> 0, den2 |-> 1]
        ELSE
        LET n == Len(y_true)
            labels == Values(y_true) \cup Values(y_pred)
            C == [a \in labels |-> [b \in labels |->
                    SumTo([r \in 1 .. n |->
                            IF y_true[r][1] = a /\ y_pred[r][1] = b
                            THEN sample_weight[r][1] ELSE 0], n)]]
            t_sum == [a \in labels |-> SetSum(C[a], labels)]
            p_sum == [b \in labels |-> SetSum([a \in labels |-> C[a][b]], labels)]
            n_correct == SetSum([a \in labels |-> C[a][a]], labels)
            n_samples == SetSum(p_sum, labels)
            cov_ytyp == n_correct * n_samples
                        - SetSum([a \in labels |-> t_sum[a] * p_sum[a]], labels)
            cov_ypyp == n_samples * n_samples
                        - SetSum([a \in labels |-> p_sum[a] * p_sum[a]], labels)
            cov_ytyt == n_samples * n_samples
                        - SetSum([a \in labels |-> t_sum[a] * t_sum[a]], labels)
        IN  IF cov_ypyp * cov_ytyt = 0
            THEN [kind |-> "value", num |-> 0, den2 |-> 1]
            ELSE [kind |-> "value", num |-> cov_ytyp, den2 |-> cov_ytyt * cov_ypyp]

\* Lines 236-244.
PredictScore ==
    /\ UNCHANGED notPredict
    /\ unit = "predict" /\ pc = "predict_score"
    /\ losses' = MatthewsCorrcoef(Reshape(target, n_inputs, Side(s2_length)),
                                  Reshape(pred, n_inputs, Side(s2_length)),
                                  Reshape(weight, n_inputs, Side(s2_length)))
    /\ IF losses'.kind = "raise"
       THEN pc' = "crashed" /\ error' = "ValueError"
       ELSE pc' = "predict_done" /\ error' = error
    /\ UNCHANGED <<unit, n_inputs, s2_length, target, weight, pred>>

\* -------------------------------------------- srresnet.py: add_nni_params
\* Option values: an int, a float (n in thousandths), a str holding a path
\* (p, its components), a bool (n is 0 or 1); NotReturned marks a key the
\* service did not return.
IntV(n) == [t |-> "int", n |-> n, p |-> << >>]
FloatV(n) == [t |-> "float", n |-> n, p |-> << >>]
StrV(p) == [t |-> "str", n |-> 0, p |-> p]
BoolV(b) == [t |-> "bool", n |-> IF b THEN 1 ELSE 0, p |-> << >>]
NotReturned == [t |-> "absent", n |-> 0, p |-> << >>]

\* Lines 342-353: the options of the run that the model follows.
ConfigKeys == {"n_epochs", "learning_rate", "save_model_path", "output_path", "nni"}

\* Lines 342-353: their defaults; save_model_path as given on the command line.
ParsedArgs(save_model_path) ==
    [key \in ConfigKeys |->
        CASE key = "n_epochs" -> IntV(200)
          [] key = "learning_rate" -> FloatV(1)
          [] key = "save_model_path" -> StrV(save_model_path)
          [] key = "output_path" -> StrV(<<"data", "best_hr_predictions.h5">>)
          [] key = "nni" -> BoolV(TRUE)]

\* Line 343: the default of --save-model-path, and a nested path.
SaveModelPaths == {<<"saved_models">>, <<"runs", "a">>}

\* Line 314: $NNI_OUTPUT_DIR set by the service, or left as written when unset.
OutputDirs == {<<"nni", "trial">>, <<"$NNI_OUTPUT_DIR">>}

\* Line 305: the keys the service can return, one of them not an option.
ReturnKeys == ConfigKeys \cup {"dropout"}

\* Line 305: what the service can return for a key (a search space gives
\* numbers to numeric options and strings to path options).
Offers(key) ==
    CASE key = "n_epochs" -> {NotReturned, IntV(3), FloatV(2500), FloatV(-1500)}
      [] key = "learning_rate" -> {NotReturned, FloatV(10), IntV(1)}
      [] key \in {"save_model_path", "output_path"} ->
           {NotReturned, StrV(<<"m">>), StrV(<<"x", "m">>)}
      [] key = "dropout" -> {NotReturned, FloatV(500)}
      [] OTHER -> {NotReturned}

\* args_nni.keys()
Keys(returned) == {key \in ReturnKeys : returned[key] # NotReturned}

\* The state of add_nni_params in a behaviour that runs another unit.
NniIdle ==
    /\ parsed_args = [key \in ConfigKeys |-> NotReturned]
    /\ args_dict = [key \in ConfigKeys |-> NotReturned]
    /\ args_nni = [key \in ReturnKeys |-> NotReturned]
    /\ nni_output_dir = << >>

\* Lines 355-358: the options are parsed and add_nni_params is entered.
NniInit ==
    /\ \E path \in SaveModelPaths : parsed_args = ParsedArgs(path)
    /\ args_dict = parsed_args
    /\ args_nni = [key \in ReturnKeys |-> NotReturned]
    /\ nni_output_dir \in OutputDirs
    /\ error = "none"
    /\ pc = "nni_get"

\* Line 305.
GetNextParameter ==
    /\ UNCHANGED notNni
    /\ unit = "nni_params" /\ pc = "nni_get"
    /\ args_nni' \in {r \in [ReturnKeys -> UNION {Offers(key) : key \in ReturnKeys}] :
                        \A key \in ReturnKeys : r[key] \in Offers(key)}
    /\ pc' = "nni_assert"
    /\ UNCHANGED <<unit, error, parsed_args, args_dict, nni_output_dir>>

\* Line 306.
AssertKeys ==
    /\ UNCHANGED notNni
    /\ unit = "nni_params" /\ pc = "nni_assert"
    /\ IF \A key \in Keys(args_nni) : key \in DOMAIN args_dict
       THEN pc' = "nni_update" /\ error' = error
       ELSE pc' = "crashed" /\ error' = "AssertionError"
    /\ UNCHANGED <<unit, nniVars>>

\* Python's int(): a float is truncated towards zero.
IntCast(value) ==
    CASE value.t = "int" -> value
      [] value.t = "bool" -> IntV(value.n)
      [] value.t = "float" ->
           IntV(IF value.n >= 0 THEN value.n \div 1000 ELSE -((-value.n) \div 1000))

\* Line 309 without the cast.
CastedValueAsReturned(current, value) == value

\* Line 309: type(args_dict[key]) is int selects the cast.
CastedValue(current, value) == IF current.t = "int" THEN IntCast(value) ELSE value

\* Lines 307-311.
UpdateArgs ==
    /\ UNCHANGED notNni
    /\ unit = "nni_params" /\ pc = "nni_update"
    /\ args_dict' = [key \in DOMAIN args_dict |->
                        IF key \in Keys(args_nni)
                        THEN CastedValue(args_dict[key], args_nni[key])
                        ELSE args_dict[key]]
    /\ pc' = "nni_paths"
    /\ UNCHANGED <<unit, error, parsed_args, args_nni, nni_output_dir>>

\* os.path.basename and os.path.join on path components.
Basename(path) == IF path = << >> THEN << >> ELSE <<path[Len(path)]>>
Join(dir, path) == dir \o path

\* Lines 314-318.
RebasePaths ==
    /\ UNCHANGED notNni
    /\ unit = "nni_params" /\ pc = "nni_paths"
    /\ args_dict' = [key \in DOMAIN args_dict |->
                        IF key \in {"save_model_path", "output_path"}
                        THEN StrV(Join(nni_output_dir, Basename(args_dict[key].p)))
                        ELSE args_dict[key]]
    /\ pc' = "nni_done"
    /\ UNCHANGED <<unit, error, parsed_args, args_nni, nni_output_dir>>

\* ------------------------------------------ model.py: the datasets of main()
\* Line 116: os.listdir names the folders; they are numbered 1 .. n here.
ListDir(n) == [i \in 1 .. n |-> i]

\* Line 119: np.random.shuffle leaves the list in one of its orders.
Shuffles(list) ==
    {[i \in 1 .. Len(list) |-> list[perm[i]]] :
        perm \in {f \in [1 .. Len(list) -> 1 .. Len(list)] :
                    \A i, j \in 1 .. Len(list) : i # j => f[i] # f[j]}}

\* Python's list[n:] and list[:n] for n >= 0.
From(list, n) == SubSeq(list, n + 1, Len(list))
Upto(list, n) == SubSeq(list, 1, IF n < Len(list) THEN n ELSE Len(list))

\* The state of the datasets in a behaviour that runs another unit.
DataIdle ==
    /\ n_folders = 0 /\ n_valid_patches = 0
    /\ train_patches = << >> /\ valid_patches = << >>

\* Lines 246-255: the seeds are set; nothing has been listed yet.
DataInit ==
    /\ n_folders \in 0 .. MaxFolders
    /\ n_valid_patches \in 0 .. MaxValidPatches
    /\ train_patches = << >> /\ valid_patches = << >>
    /\ error = "none"
    /\ pc = "ds_train"

\* Lines 116-124: the folders one EODataset loads.
EODataset(flag, shuffled) ==
    IF flag = "train" THEN From(shuffled, n_valid_patches)
    ELSE Upto(shuffled, n_valid_patches)

\* Line 256.
BuildTrainDataset ==
    /\ UNCHANGED notData
    /\ unit = "dataset" /\ pc = "ds_train"
    /\ \E f_patches \in Shuffles(ListDir(n_folders)) :
          train_patches' = EODataset("train", f_patches)
    /\ pc' = "ds_valid"
    /\ UNCHANGED <<unit, error, n_folders, n_valid_patches, valid_patches>>

\* Line 257.
BuildValidDataset ==
    /\ UNCHANGED notData
    /\ unit = "dataset" /\ pc = "ds_valid"
    /\ \E f_patches \in Shuffles(ListDir(n_folders)) :
          valid_patches' = EODataset("valid", f_patches)
    /\ pc' = "ds_done"
    /\ UNCHANGED <<unit, error, n_folders, n_valid_patches, train_patches>>

\* ------------------------------------------------------------ specification
Init ==
    \/ unit = "train" /\ TrainInit /\ SRIdle /\ NetIdle /\ PredictIdle /\ NniIdle /\ DataIdle
    \/ unit = "sr_fit" /\ SRInit /\ TrainIdle /\ NetIdle /\ PredictIdle /\ NniIdle /\ DataIdle
    \/ unit = "sr_net" /\ NetInit /\ TrainIdle /\ SRIdle /\ PredictIdle /\ NniIdle /\ DataIdle
    \/ unit = "predict" /\ PredictInit /\ TrainIdle /\ SRIdle /\ NetIdle /\ NniIdle /\ DataIdle
    \/ unit = "nni_params" /\ NniInit /\ TrainIdle /\ SRIdle /\ NetIdle /\ PredictIdle /\ DataIdle
    \/ unit = "dataset" /\ DataInit /\ TrainIdle /\ SRIdle /\ NetIdle /\ PredictIdle /\ NniIdle

Next ==
    \/ TrainSweep
    \/ Validate
    \/ ReportIntermediate
    \/ EarlyStopping
    \/ PatienceCheck
    \/ ReportFinal
    \/ SaveBestModel
    \/ SRTrainEpoch
    \/ SRValidate
    \/ SRTrainEnd
    \/ SRLoadCheckpoint
    \/ NetAssert
    \/ BuildConvBlock1
    \/ BuildResidualBlocks
    \/ BuildConvBlock2
    \/ BuildSubpixelBlocks
    \/ BuildConvBlock3
    \/ StartFit
    \/ FwdConvBlock1
    \/ FwdResidualBlock
    \/ FwdConvBlock2
    \/ FwdSubpixelBlock
    \/ FwdConvBlock3
    \/ PredictForward
    \/ PredictScore
    \/ GetNextParameter
    \/ AssertKeys
    \/ UpdateArgs
    \/ RebasePaths
    \/ BuildTrainDataset
    \/ BuildValidDataset

Spec == Init /\ [][Next]_vars

\* ------------------------------------------------------------------ claims
\* The loop of line 274 has been left (the spec's Stopped).
LoopLeft == stop_cause # "none"

\* Indices of the defined (non-nan) scores of a history.
NumIdx(h) == {i \in 1 .. Len(h) : h[i].k = "num"}

\* The first index holding the lowest defined score of h; 0 when h has none.
FirstBest(h) ==
    IF NumIdx(h) = {} THEN 0
    ELSE CHOOSE i \in NumIdx(h) :
            \A j \in NumIdx(h) : h[i].v < h[j].v \/ (h[i].v = h[j].v /\ i <= j)

Prefix(h, n) == SubSeq(h, 1, n)

IsPrefixOf(h, g) == Len(h) <= Len(g) /\ h = Prefix(g, Len(h))

\* The score sequence [0.5, 0.4, 0.6, 0.6, 0.6].
C1_Scores == <<Num(5), Num(4), Num(6), Num(6), Num(6)>>

\* C1: on the scores [0.5, 0.4, 0.6, 0.6, 0.6] with patience 2 and a budget of
\* at least 5 epochs, the loop is left after the fifth epoch, not earlier and
\* not later, with best score 0.6 and the snapshot taken in the third epoch.
C1_StopsAfterFifthWithBestSix ==
    (/\ unit = "train" /\ patience = 2 /\ max_epochs >= 5 /\ ~nni
     /\ valid_batches > 0 /\ IsPrefixOf(valid_history, C1_Scores))
    => /\ LoopLeft => /\ Len(valid_history) = 5
                      /\ best_loss = Num(6)
                      /\ best_model # "unbound" /\ params[best_model] = 3
       /\ (Len(valid_history) = 5 /\ pc = "train") => FALSE

C3_StopOnlyAfterStagnant ==
    [][(unit = "train" /\ patience >= 0)
       => /\ (pc = "early_stopping" /\ outcome' = "Stagnant")
                => patience_count' = patience_count + 1
          /\ (pc = "patience_check" /\ stop_cause' = "patience")
                => (outcome = "Stagnant" /\ patience_count = patience)
          /\ (pc = "patience_check" /\ outcome = "Improved" /\ epoch + 1 < max_epochs)
                => pc' = "train"
          /\ LoopLeft => (pc' # "train" /\ valid_history' = valid_history)]_vars

C5_PersistedExactlyOnce ==
    (unit = "train" /\ ~nni)
    => /\ ~LoopLeft => saved = 0
       /\ saved <= 1
       /\ (LoopLeft /\ pc \in {"done", "crashed"}) => saved = 1

\* C6: the persistence step is never attempted on a best-model snapshot that
\* no epoch assigned.
C6_NoSaveOfUnassignedSnapshot ==
    unit = "train" => ~(pc = "save" /\ best_model = "unbound")

\* The number of validation epochs since the lowest val_loss was first logged.
SinceBest(h) == Len(h) - FirstBest(h)

\* C7: once val_loss has not improved for 10 consecutive validation epochs the
\* training run starts no further epoch although budget is left, and the model
\* used for prediction is the snapshot of the lowest val_loss.
C7_SRHaltsOnStagnation ==
    unit = "sr_fit"
    => /\ (SinceBest(val_history) >= SRPatience /\ Len(val_history) < n_epochs)
            => pc \notin {"sr_train", "sr_validate"}
       /\ pc = "sr_done" => valid_model = FirstBest(val_history)

\* C8: with a scaling factor outside {2, 4, 8} construction ends at once in the
\* assertion error: no block is built, fit never starts, forward never runs;
\* with a scaling factor in {2, 4, 8} construction never fails.
C8_InvalidScaleFailsAtConstruction ==
    unit = "sr_net"
    => IF scaling_factor \in {2, 4, 8}
       THEN /\ error # "AssertionError"
            /\ pc = "crashed" => (fit_started /\ Len(blocks) = n_blocks + 3 + Built("subpixel"))
       ELSE /\ pc \in {"net_assert", "crashed"}
            /\ pc = "crashed" => error = "AssertionError"
            /\ blocks = << >> /\ ~fit_started /\ output = NoTensor

\* C8 witness: the scaling factor 3 has been refused.
C8_ScaleThreeRefused ==
    /\ unit = "sr_net" /\ scaling_factor = 3
    /\ pc = "crashed" /\ error = "AssertionError" /\ blocks = << >>

\* The spatial size of a tensor is that of the input, times f.
SameSide(t, f) == t.w = lr_imgs.w * f /\ t.h = lr_imgs.h * f

\* C9: for s in {2, 4, 8} and all kernel sizes, log2(s) upscaling blocks are
\* built, each doubling both sides; every other block keeps the sides, so both
\* skip additions add equal shapes; forward maps (w, h) to (w*s, h*s), 1 channel.
C9_OutputIsInputTimesScale ==
    (unit = "sr_net" /\ scaling_factor \in {2, 4, 8})
    => /\ pc \in {"build_conv_block3", "constructed"}
            => Built("subpixel") = (CASE scaling_factor = 2 -> 1
                                      [] scaling_factor = 4 -> 2
                                      [] scaling_factor = 8 -> 3)
       /\ error # "RuntimeError"
       /\ pc = "fwd_residual_blocks" => (SameSide(output, 1) /\ output = residual)
       /\ (pc = "fwd_subpixel" /\ layer = 0) => SameSide(output, 1)
       /\ (pc = "fwd_subpixel" /\ layer = 1) => SameSide(output, 2)
       /\ (pc = "fwd_subpixel" /\ layer = 2) => SameSide(output, 4)
       /\ (pc = "fwd_subpixel" /\ layer = 3) => SameSide(output, 8)
       /\ pc = "fwd_done" => (SameSide(output, scaling_factor) /\ output.c = 1)

\* The batch x is made of images of one pattern only.
AllOf(x, pattern) ==
    x = [r \in 1 .. n_inputs |-> Image(pattern, Side(s2_length))]

ConstantBatch(x) == AllOf(x, "zeros") \/ AllOf(x, "ones")

\* C10: the metric of predict is a defined value for every batch: 1.0 when
\* target and prediction are both the pattern 1,1,0,0 with unit weights, 0 when
\* all predictions or all targets are constant, and never an error.
C10_MetricAlwaysDefined ==
    (unit = "predict" /\ pc \in {"predict_done", "crashed"})
    => /\ error = "none"
       /\ losses.kind = "value"
       /\ (AllOf(target, "half") /\ AllOf(pred, "half") /\ AllOf(weight, "ones"))
            => (losses.num > 0 /\ losses.num * losses.num = losses.den2)
       /\ (ConstantBatch(pred) \/ ConstantBatch(target)) => losses.num = 0
\* n report calls of the intermediate kind.
Intermediates(n) == [i \in 1 .. n |-> "intermediate"]

\* C11: with the hyperparameter-search integration on, each pipeline reports
\* one intermediate score per validation epoch and then one final score and
\* goes on to persist the model; with it off no report is made; in neither
\* case does the run fail on the integration's name.
C11_ReportsOncePerEpochThenFinal ==
    /\ (unit = "train" /\ max_epochs >= 1 /\ valid_batches >= 1) => error # "NameError"
    /\ (unit = "sr_fit" /\ n_epochs >= 1) =>
          IF sr_nni
          THEN reports = Intermediates(Len(val_history)) \o
                         (IF pc \in {"sr_load", "sr_done", "crashed"}
                          THEN <<"final">> ELSE << >>)
          ELSE reports = << >>

\* Position of a step inside one epoch of the loop of line 274, counted from its end.
Stage(p) ==
    CASE p = "train" -> 5
      [] p = "validate" -> 4
      [] p = "report" -> 3
      [] p = "early_stopping" -> 2
      [] p = "patience_check" -> 1
      [] OTHER -> 0

\* Number of steps main() can still take at most.
Rank ==
    CASE pc \in {"train", "validate", "report", "early_stopping", "patience_check"} ->
           3 + 5 * (max_epochs - 1 - epoch) + Stage(pc)
      [] pc = "final_report" -> 2
      [] pc = "save" -> 1
      [] OTHER -> 0

\* What follows the loop is decided by nni and by whether best_model was ever
\* bound, not by the way the loop was left.
TerminalHandling ==
    (LoopLeft /\ pc \in {"done", "crashed"}) =>
        IF nni THEN pc = "crashed" /\ error = "NameError" /\ saved = 0
        ELSE IF best_model = "unbound"
             THEN pc = "crashed" /\ error = "UnboundLocalError" /\ saved = 0
             ELSE pc = "done" /\ error = "none" /\ saved = 1

TrainBounded ==
    /\ Rank >= 0
    /\ Len(valid_history) <= max_epochs
    /\ LoopLeft => pc \in {"final_report", "save", "done", "crashed"}
    /\ pc \in {"final_report", "save", "done"} => LoopLeft
    /\ pc \in {"done", "crashed"}
       \/ ENABLED (TrainSweep \/ Validate \/ ReportIntermediate \/ EarlyStopping
                   \/ PatienceCheck \/ ReportFinal \/ SaveBestModel)
    /\ TerminalHandling

\* C13: the classification training loop terminates for every score sequence
\* and every patience value, after at most max_epochs epochs, and leaving the
\* loop by exhausting the epoch budget leads into the same final report and
\* persistence step as leaving it by the patience check.
C13_LoopTerminatesWithinBudget ==
    [][unit = "train" => Rank' < Rank /\ TrainBounded /\ TrainBounded']_vars

C13_BudgetExhaustedThenSaved ==
    /\ unit = "train" /\ pc = "done" /\ stop_cause = "budget"
    /\ max_epochs >= 2 /\ Len(valid_history) = max_epochs /\ saved = 1

\* C14: with patience = -1 the patience check never fires, and the loop is
\* left only after exactly max_epochs epochs, whatever the scores.
C14_NoEarlyStopWhenDisabled ==
    (unit = "train" /\ patience = -1) =>
        /\ stop_cause # "patience"
        /\ LoopLeft => Len(valid_history) = max_epochs

C14_FullBudgetOfStagnantEpochs ==
    /\ unit = "train" /\ patience = -1 /\ pc = "done"
    /\ max_epochs = MaxEpochs /\ Len(valid_history) = MaxEpochs
    /\ patience_count = MaxEpochs - 1

\* The value an option of the given earlier value holds after taking the
\* returned one: the int nearest to it towards zero for an int option.
TakesReturned(earlier, now, returned) ==
    IF earlier.t = "int"
    THEN /\ now.t = "int"
         /\ IF returned.t = "float"
            THEN /\ (returned.n >= 0 => now.n * 1000 <= returned.n /\ returned.n < (now.n + 1) * 1000)
                 /\ (returned.n < 0 => now.n * 1000 >= returned.n /\ returned.n > (now.n - 1) * 1000)
            ELSE now.n = returned.n
    ELSE now = returned

\* C15: add_nni_params fails before changing any value when the service
\* returns a key that is not an option; otherwise every returned key takes
\* the returned value (as an int when the option held an int),
\* save_model_path and output_path end in the service's output directory
\* under their base names, and every other option keeps its value.
C15_OnlyKnownKeysOverwritten ==
    unit = "nni_params" =>
        /\ (Keys(args_nni) \ ConfigKeys # {}) =>
              pc \in {"nni_assert", "crashed"} /\ args_dict = parsed_args
        /\ pc = "crashed" =>
              error = "AssertionError" /\ Keys(args_nni) \ ConfigKeys # {}
        /\ pc = "nni_done" =>
              \A key \in ConfigKeys :
                  IF key \in {"save_model_path", "output_path"}
                  THEN LET source == IF key \in Keys(args_nni) THEN args_nni[key]
                                     ELSE parsed_args[key]
                       IN /\ args_dict[key].t = "str"
                          /\ Len(source.p) >= 1
                          /\ args_dict[key].p = nni_output_dir \o <<source.p[Len(source.p)]>>
                  ELSE IF key \in Keys(args_nni)
                       THEN TakesReturned(parsed_args[key], args_dict[key], args_nni[key])
                       ELSE args_dict[key] = parsed_args[key]

C15_FloatTruncatedPathRebased ==
    /\ unit = "nni_params" /\ pc = "nni_done"
    /\ args_nni["n_epochs"] = FloatV(2500) /\ args_dict["n_epochs"] = IntV(2)
    /\ args_nni["learning_rate"] = IntV(1) /\ args_dict["learning_rate"] = IntV(1)
    /\ args_nni["save_model_path"] = NotReturned
    /\ parsed_args["save_model_path"] = StrV(<<"runs", "a">>)
    /\ args_dict["save_model_path"] = StrV(<<"nni", "trial", "a">>)
    /\ args_dict["nni"] = BoolV(TRUE)

\* The folders of a list.
Range(list) == {list[i] : i \in 1 .. Len(list)}

\* C16: the training and validation datasets built by main() use disjoint
\* sets of folders that together are all the folders of the data
\* directory, n_valid_patches of them in the validation set.
C16_SplitIsPartition ==
    (unit = "dataset" /\ pc = "ds_done" /\ n_valid_patches <= n_folders) =>
        /\ Range(train_patches) \cap Range(valid_patches) = {}
        /\ Range(train_patches) \cup Range(valid_patches) = 1 .. n_folders
        /\ Len(valid_patches) = n_valid_patches

====
